---- MODULE Spec2Model ----
(***************************************************************************)
(* A model of pixl-xml (src/xml.js): the entity codec, the tag scanner     *)
(* with its special-tag sub-scanners, the recursive tree builder, the      *)
(* error reporter, the serializer and the document wrapper.                *)
(*                                                                         *)
(* Text is a sequence of one-character strings.  A Node is a record        *)
(*   [t |-> "T", v |-> chars]            a Text (JS string)                *)
(*   [t |-> "E", v |-> <<[k, v], ...>>]  an Element (JS object, keys in    *)
(*                                       insertion order)                  *)
(*   [t |-> "S", v |-> <<node, ...>>]    a Sequence (JS array)             *)
(*   [t |-> "U", v |-> <<>>]             undefined                         *)
(***************************************************************************)
EXTENDS Naturals, Integers, Sequences, FiniteSets, TLC

VARIABLES
    opts,              \* the option fields of the instance (src/xml.js:577-582)
    text,              \* this.text
    lastIndex,         \* this.patTag.lastIndex, the master scan cursor
    nextCloseIndex,    \* this.patNextClose.lastIndex
    stack,             \* the live calls of XML.parse, outermost first
    tree,              \* this.tree once the outermost call has finished
    errors,            \* this.errors
    piNodeList,        \* this.piNodeList
    dtdNodeList,       \* this.dtdNodeList
    documentNodeName,  \* this.documentNodeName
    pc,                \* where the caller of the library is
    result,            \* what the convenience function parse() returned
    origin,            \* the tree handed to stringify, when the text comes from one
    recorded,          \* the prologue tags in the order the scan recorded them
    composed,          \* what compose() returned
    mutations,         \* how many times the caller has mutated the tree
    peer,              \* a second instance of XML, while the first one is taking steps
    ser,               \* one call of each copy of stringify on the same arguments
    cin, cenc, cdec, cpc   \* entity codec: input, encoded, decoded, position

vars == <<opts, text, lastIndex, nextCloseIndex, stack, tree, errors, piNodeList,
          dtdNodeList, documentNodeName, pc, result, origin, recorded, composed,
          mutations, peer, ser, cin, cenc, cdec, cpc>>

parserVars == <<opts, text, lastIndex, nextCloseIndex, stack, tree, errors,
                piNodeList, dtdNodeList, documentNodeName, pc, result, origin,
                recorded, composed, mutations, peer, ser>>

codecVars == <<cin, cenc, cdec, cpc>>

----------------------------------------------------------------------------
(* Characters *)

Lowers == {"a","b","c","d","e","f","g","h","i","j","k","l","m",
           "n","o","p","q","r","s","t","u","v","w","x","y","z"}

Uppers == {"A","B","C","D","E","F","G","H","I","J","K","L","M",
           "N","O","P","Q","R","S","T","U","V","W","X","Y","Z"}

Digits == {"0","1","2","3","4","5","6","7","8","9"}

\* \s
WhiteSpace == {" ", "\t", "\n", "\r"}

\* \w
WordChars == Lowers \cup Uppers \cup Digits \cup {"_"}

\* [\w\-:.]
NameChars == WordChars \cup {"-", ":", "."}

\* [\w\-:]
PINameChars == WordChars \cup {"-", ":"}

----------------------------------------------------------------------------
(* Strings as sequences of characters *)

Drop(s, n) == SubSeq(s, n + 1, Len(s))

StartsWithAt(s, i, lit) ==
    /\ i >= 1
    /\ i + Len(lit) - 1 <= Len(s)
    /\ SubSeq(s, i, i + Len(lit) - 1) = lit

EndsWith(s, lit) ==
    /\ Len(lit) <= Len(s)
    /\ SubSeq(s, Len(s) - Len(lit) + 1, Len(s)) = lit

\* The least index >= from at which c occurs in s, or 0.
IndexFrom(s, c, from) ==
    IF \E i \in from..Len(s) : s[i] = c
    THEN CHOOSE i \in from..Len(s) : s[i] = c /\ \A j \in from..(i - 1) : s[j] # c
    ELSE 0

\* The least index >= from that holds no character of the set cls (Len(s)+1 if none).
SkipClass(s, from, cls) ==
    IF \E i \in from..Len(s) : s[i] \notin cls
    THEN CHOOSE i \in from..Len(s) : s[i] \notin cls /\ \A j \in from..(i - 1) : s[j] \in cls
    ELSE IF from > Len(s) THEN from ELSE Len(s) + 1

SkipWs(s, from) == SkipClass(s, from, WhiteSpace)

CountChar(s, c) == Cardinality({i \in 1..Len(s) : s[i] = c})

RECURSIVE ReplaceAll(_, _, _)
\* String.prototype.replace with a global literal pattern.
ReplaceAll(s, pat, rep) ==
    IF Len(s) < Len(pat) THEN s
    ELSE IF SubSeq(s, 1, Len(pat)) = pat
         THEN rep \o ReplaceAll(Drop(s, Len(pat)), pat, rep)
         ELSE <<s[1]>> \o ReplaceAll(Tail(s), pat, rep)

RECURSIVE Flatten(_)
Flatten(ss) == IF ss = <<>> THEN <<>> ELSE Head(ss) \o Flatten(Tail(ss))

\* trim(text)
trim(s) ==
    LET a == SkipWs(s, 1)
    IN  IF a > Len(s) THEN <<>>
        ELSE LET b == CHOOSE i \in a..Len(s) :
                          s[i] \notin WhiteSpace /\ \A j \in (i + 1)..Len(s) : s[j] \in WhiteSpace
             IN  SubSeq(s, a, b)

----------------------------------------------------------------------------
(* Entity codec *)

AMP == <<"&","a","m","p",";">>
LTE == <<"&","l","t",";">>
GTE == <<"&","g","t",";">>
QUOTE == <<"&","q","u","o","t",";">>
APOSE == <<"&","a","p","o","s",";">>

encodeEntities(s) ==
    ReplaceAll(ReplaceAll(ReplaceAll(s, <<"&">>, AMP), <<"<">>, LTE), <<">">>, GTE)

encodeAttribEntities(s) ==
    ReplaceAll(ReplaceAll(encodeEntities(s), <<"\"">>, QUOTE), <<"'">>, APOSE)

\* a decoder that undoes &amp; before the other four
decodeAmpFirst(s) ==
    ReplaceAll(ReplaceAll(ReplaceAll(ReplaceAll(ReplaceAll(s,
        AMP, <<"&">>), LTE, <<"<">>), GTE, <<">">>), QUOTE, <<"\"">>), APOSE, <<"'">>)

decodeEntities(s) ==
    IF \E i \in 1..Len(s) : s[i] = "&"
    THEN ReplaceAll(ReplaceAll(ReplaceAll(ReplaceAll(ReplaceAll(s,
             LTE, <<"<">>), GTE, <<">">>), QUOTE, <<"\"">>), APOSE, <<"'">>), AMP, <<"&">>)
    ELSE s

----------------------------------------------------------------------------
(* Nodes: JS strings, objects and arrays *)

Text(s) == [t |-> "T", v |-> s]

Elem(kv) == [t |-> "E", v |-> kv]

SeqNode(items) == [t |-> "S", v |-> items]

Undef == [t |-> "U", v |-> <<>>]

EmptyElem == Elem(<<>>)

\* null, and the empty string, as a name
NoName == <<>>

KeyIndex(e, key) ==
    IF \E i \in 1..Len(e.v) : e.v[i].k = key
    THEN CHOOSE i \in 1..Len(e.v) : e.v[i].k = key
    ELSE 0

\* hash[key] !== undefined
Has(e, key) == KeyIndex(e, key) > 0

\* hash[key]
Get(e, key) == IF Has(e, key) THEN e.v[KeyIndex(e, key)].v ELSE Undef

\* hash[key] = val: a new key goes last, an old one keeps its place
Set(e, key, val) ==
    IF Has(e, key)
    THEN Elem([e.v EXCEPT ![KeyIndex(e, key)] = [k |-> key, v |-> val]])
    ELSE Elem(Append(e.v, [k |-> key, v |-> val]))

\* delete hash[key]
Delete(e, key) ==
    IF Has(e, key)
    THEN Elem(SubSeq(e.v, 1, KeyIndex(e, key) - 1) \o Drop(e.v, KeyIndex(e, key)))
    ELSE e

numKeys(e) == Len(e.v)

firstKey(e) == IF e.v = <<>> THEN NoName ELSE e.v[1].k

hashKeysToArray(e) == [i \in 1..Len(e.v) |-> e.v[i].k]

UpperSeq == <<"A","B","C","D","E","F","G","H","I","J","K","L","M",
              "N","O","P","Q","R","S","T","U","V","W","X","Y","Z">>

LowerSeq == <<"a","b","c","d","e","f","g","h","i","j","k","l","m",
              "n","o","p","q","r","s","t","u","v","w","x","y","z">>

\* String.prototype.toLowerCase
toLowerCase(s) ==
    [i \in 1..Len(s) |->
        IF s[i] \in Uppers
        THEN LowerSeq[CHOOSE j \in 1..26 : UpperSeq[j] = s[i]]
        ELSE s[i]]

----------------------------------------------------------------------------
(* The matchers (src/xml.js:584-601) *)

LineTerminators == {"\n", "\r"}

\* patTag = /([^<]*?)<([^>]+)>/g run from index start (1-based)
RECURSIVE patTagExec(_, _)
patTagExec(s, start) ==
    LET p == IndexFrom(s, "<", start)
        q == IF p = 0 THEN 0 ELSE IndexFrom(s, ">", p + 1)
    IN  IF p = 0 \/ q = 0
        THEN [found |-> FALSE, before |-> <<>>, tag |-> <<>>, last |-> 0]
        ELSE IF q = p + 1
        THEN patTagExec(s, p + 1)
        ELSE [found |-> TRUE, before |-> SubSeq(s, start, p - 1),
              tag |-> SubSeq(s, p + 1, q - 1), last |-> q]

\* patNextClose = /([^>]*?)>/g run from index start (1-based)
patNextCloseExec(s, start) ==
    LET q == IndexFrom(s, ">", start)
    IN  IF q = 0 THEN [found |-> FALSE, seg |-> <<>>, last |-> 0]
        ELSE [found |-> TRUE, seg |-> SubSeq(s, start, q - 1), last |-> q]

\* /\S/
hasNonSpace(s) == \E i \in 1..Len(s) : s[i] \notin WhiteSpace

\* patSpecialTag = /^\s*([!?])/
patSpecialTag(tag) ==
    LET i == SkipWs(tag, 1) IN i <= Len(tag) /\ tag[i] \in {"!", "?"}

\* patPITag = /^\s*\?/
patPITag(tag) ==
    LET i == SkipWs(tag, 1) IN i <= Len(tag) /\ tag[i] = "?"

\* patCommentTag = /^\s*!--/
patCommentTag(tag) == StartsWithAt(tag, SkipWs(tag, 1), <<"!","-","-">>)

DOCTYPE == <<"!","D","O","C","T","Y","P","E">>

\* patDTDTag = /^\s*!DOCTYPE/
patDTDTag(tag) == StartsWithAt(tag, SkipWs(tag, 1), DOCTYPE)

CDATA == <<"C","D","A","T","A">>

\* the index after /^\s*!\s*\[\s*CDATA/, or 0
afterCDATA(tag) ==
    LET i == SkipWs(tag, 1)
        j == SkipWs(tag, i + 1)
        k == SkipWs(tag, j + 1)
    IN  IF /\ i <= Len(tag) /\ tag[i] = "!"
           /\ j <= Len(tag) /\ tag[j] = "["
           /\ StartsWithAt(tag, k, CDATA)
        THEN k + 5 ELSE 0

\* patCDATATag = /^\s*!\s*\[\s*CDATA/
patCDATATag(tag) == afterCDATA(tag) > 0

\* patCDATANode = /^\s*!\s*\[\s*CDATA\s*\[([^]*)]]/ : the payload, greedy
patCDATANode(tag) ==
    LET a == afterCDATA(tag)
        m == SkipWs(tag, a)
        ends == {r \in (m + 1)..(Len(tag) - 1) : tag[r] = "]" /\ tag[r + 1] = "]"}
    IN  IF a > 0 /\ m <= Len(tag) /\ tag[m] = "[" /\ ends # {}
        THEN [found |-> TRUE,
              payload |-> SubSeq(tag, m + 1, (CHOOSE r \in ends : \A r2 \in ends : r2 <= r) - 1)]
        ELSE [found |-> FALSE, payload |-> <<>>]

\* patPINode = /^\s*\?\s*([\w\-:]+)\s*(.*)$/
patPINode(tag) ==
    LET i == SkipWs(tag, 1)
        j == SkipWs(tag, i + 1)
        e == SkipClass(tag, j, PINameChars)
        r == SkipWs(tag, e)
    IN  /\ i <= Len(tag) /\ tag[i] = "?"
        /\ j <= Len(tag) /\ tag[j] \in PINameChars
        /\ \A n \in r..Len(tag) : tag[n] \notin LineTerminators

\* the index after /^\s*!DOCTYPE\s+([\w\-:]+)\s+/, or 0
afterDTDName(tag) ==
    LET i == SkipWs(tag, 1)
        j == SkipWs(tag, i + 8)
        e == SkipClass(tag, j, PINameChars)
        r == SkipWs(tag, e)
    IN  IF /\ StartsWithAt(tag, i, DOCTYPE)
           /\ j > i + 8 /\ j <= Len(tag) /\ tag[j] \in PINameChars
           /\ r > e
        THEN r ELSE 0

SYSTEM == <<"S","Y","S","T","E","M">>
PUBLIC == <<"P","U","B","L","I","C">>

\* patExternalDTDNode = /^\s*!DOCTYPE\s+([\w\-:]+)\s+(SYSTEM|PUBLIC)\s+"([^"]+)"/
patExternalDTDNode(tag) ==
    LET r == afterDTDName(tag)
        q == SkipWs(tag, r + 6)
        c == IndexFrom(tag, "\"", q + 1)
    IN  /\ r > 0
        /\ StartsWithAt(tag, r, SYSTEM) \/ StartsWithAt(tag, r, PUBLIC)
        /\ q > r + 6 /\ q <= Len(tag) /\ tag[q] = "\""
        /\ c > q + 1

\* patInlineDTDNode = /^\s*!DOCTYPE\s+([\w\-:]+)\s+\[/
patInlineDTDNode(tag) ==
    LET r == afterDTDName(tag) IN r > 0 /\ r <= Len(tag) /\ tag[r] = "["

\* patDTDNode = /^\s*!DOCTYPE\s+([\w\-:]+)\s+\[(.*)]/
patDTDNode(tag) ==
    /\ patInlineDTDNode(tag)
    /\ \E c \in (afterDTDName(tag) + 1)..Len(tag) :
          /\ tag[c] = "]"
          /\ \A n \in (afterDTDName(tag) + 1)..(c - 1) : tag[n] \notin LineTerminators

\* patStandardTag = /^\s*(\/?)([\w\-:.]+)\s*([\s\S]*)$/
patStandardTag(tag) ==
    LET i == SkipWs(tag, 1)
        closing == i <= Len(tag) /\ tag[i] = "/"
        j == IF closing THEN i + 1 ELSE i
        e == SkipClass(tag, j, NameChars)
    IN  IF j <= Len(tag) /\ tag[j] \in NameChars
        THEN [found |-> TRUE, closing |-> closing, nodeName |-> SubSeq(tag, j, e - 1),
              attribsRaw |-> Drop(tag, SkipWs(tag, e) - 1)]
        ELSE [found |-> FALSE, closing |-> FALSE, nodeName |-> <<>>, attribsRaw |-> <<>>]

\* patSelfClosing = /\/\s*$/
patSelfClosing(raw) ==
    \E i \in 1..Len(raw) : raw[i] = "/" /\ \A j \in (i + 1)..Len(raw) : raw[j] \in WhiteSpace

\* every match of patAttrib = /([\w\-:.]+)\s*=\s*(["'])([^\2]*?)\2/g from index from:
\* in a character class \2 is the character U+0002, so the value runs to the
\* next occurrence of the opening quote
RECURSIVE patAttribAll(_, _)
patAttribAll(raw, from) ==
    IF from > Len(raw) THEN <<>>
    ELSE IF raw[from] \notin NameChars THEN patAttribAll(raw, from + 1)
    ELSE LET e == SkipClass(raw, from, NameChars)
             eq == SkipWs(raw, e)
             q == SkipWs(raw, eq + 1)
             opens == eq <= Len(raw) /\ raw[eq] = "=" /\ q <= Len(raw) /\ raw[q] \in {"\"", "'"}
             close == IF opens THEN IndexFrom(raw, raw[q], q + 1) ELSE 0
         IN  IF close > 0
             THEN <<[k |-> SubSeq(raw, from, e - 1), v |-> SubSeq(raw, q + 1, close - 1)]>>
                      \o patAttribAll(raw, close + 1)
             ELSE patAttribAll(raw, from + 1)

----------------------------------------------------------------------------
(* Error reporter *)

ErrorKey(msg, expected) == [msg |-> msg, expected |-> expected]

\* "... (expected </" + name + ">)": null prints as null
ExpectedName(name) == IF name = NoName THEN <<"n","u","l","l">> ELSE name

\* the record throwParseError pushes when the master cursor is li
errorRecord(s, key, tag, li) ==
    [type |-> "Parse",
     key  |-> key,
     text |-> <<"<">> \o tag \o <<">">>,
     line |-> (CountChar(SubSeq(s, 1, li), "\n") + 1) - CountChar(tag, "\n")]

\* getError(error): the parts of the formatted message, in order
getError(error) ==
    [head |-> <<error.type, "Error">>,
     key  |-> error.key,
     line |-> IF error.line # 0 THEN <<"on line", error.line>> ELSE <<>>,
     text |-> error.text]

NoError == [head |-> <<>>, key |-> ErrorKey("", <<>>), line |-> <<>>, text |-> <<>>]

\* getLastError() over an error list
getLastError(errs) == IF errs = <<>> THEN NoError ELSE getError(errs[Len(errs)])

----------------------------------------------------------------------------
(* Tree builder: the pieces of one pass of the loop of XML.parse *)

\* branch[dataKey] (+= ' ') += s
appendData(branch, dataKey, s) ==
    IF Has(branch, dataKey)
    THEN Set(branch, dataKey, Text(Get(branch, dataKey).v \o <<" ">> \o s))
    ELSE Set(branch, dataKey, Text(s))

\* !preserveWhitespace ? trim(decodeEntities(s)) : decodeEntities(s)
content(o, s) == IF o.preserveWhitespace THEN decodeEntities(s) ELSE trim(decodeEntities(s))

\* the text leading up to a tag is content of the parent node
withBefore(o, branch, before) ==
    IF hasNonSpace(before) THEN appendData(branch, o.dataKey, content(o, before)) ELSE branch

\* CDATA payload joins the data of the current element
withCDATA(o, branch, payload) == appendData(branch, o.dataKey, content(o, payload))

RECURSIVE assignAttribs(_, _, _)
\* attribs[key] = decodeEntities(value) for each match of patAttrib
assignAttribs(o, attribs, ms) ==
    IF ms = <<>> THEN attribs
    ELSE assignAttribs(o,
             Set(attribs, IF o.lowerCase THEN toLowerCase(Head(ms).k) ELSE Head(ms).k,
                 Text(decodeEntities(Head(ms).v))),
             Tail(ms))

\* a leaf that keeps the attributes sub-hash it created even when it is empty
newLeafKeepEmpty(o, attribsRaw) ==
    LET attribs == assignAttribs(o, EmptyElem, patAttribAll(attribsRaw, 1))
    IN  IF o.preserveAttributes
        THEN Elem(<<[k |-> o.attribsKey, v |-> attribs]>>)
        ELSE attribs

\* the leaf of an opening tag, its attributes parsed
newLeaf(o, attribsRaw) ==
    LET attribs == assignAttribs(o, EmptyElem, patAttribAll(attribsRaw, 1))
    IN  IF o.preserveAttributes
        THEN IF numKeys(attribs) = 0 THEN EmptyElem
             ELSE Elem(<<[k |-> o.attribsKey, v |-> attribs]>>)
        ELSE attribs

\* a leaf that is never compressed
collapseNever(o, leaf) == leaf

\* compress into a simple node if text only; the copy in src/unnamed/part_000
\* (208-214) also turns a leaf with no keys into the empty string
collapse(o, leaf) ==
    IF Has(leaf, o.dataKey) /\ numKeys(leaf) = 1 THEN Get(leaf, o.dataKey)
    ELSE IF o.copy = "part_000" /\ numKeys(leaf) = 0 THEN Text(<<>>)
    ELSE leaf

\* a branch that takes a repeated leaf at the front of its array
attachFirst(o, branch, nodeName, leaf, isTree) ==
    IF Has(branch, nodeName)
    THEN IF Get(branch, nodeName).t = "S"
         THEN Set(branch, nodeName, SeqNode(<<leaf>> \o Get(branch, nodeName).v))
         ELSE Set(branch, nodeName, SeqNode(<<leaf, Get(branch, nodeName)>>))
    ELSE IF o.forceArrays /\ ~isTree
         THEN Set(branch, nodeName, SeqNode(<<leaf>>))
         ELSE Set(branch, nodeName, leaf)

\* a branch that makes its arrays at the document branch as well
attachForcedAtRoot(o, branch, nodeName, leaf, isTree) ==
    IF Has(branch, nodeName)
    THEN IF Get(branch, nodeName).t = "S"
         THEN Set(branch, nodeName, SeqNode(Append(Get(branch, nodeName).v, leaf)))
         ELSE Set(branch, nodeName, SeqNode(<<Get(branch, nodeName), leaf>>))
    ELSE IF o.forceArrays
         THEN Set(branch, nodeName, SeqNode(<<leaf>>))
         ELSE Set(branch, nodeName, leaf)

\* a branch where a leaf takes the place of a single node held under its name
attachOverwrite(o, branch, nodeName, leaf, isTree) ==
    IF Has(branch, nodeName) /\ Get(branch, nodeName).t = "S"
    THEN Set(branch, nodeName, SeqNode(Append(Get(branch, nodeName).v, leaf)))
    ELSE IF o.forceArrays /\ ~isTree
         THEN Set(branch, nodeName, SeqNode(<<leaf>>))
         ELSE Set(branch, nodeName, leaf)

\* add leaf to parent branch
attach(o, branch, nodeName, leaf, isTree) ==
    IF Has(branch, nodeName)
    THEN IF Get(branch, nodeName).t = "S"
         THEN Set(branch, nodeName, SeqNode(Append(Get(branch, nodeName).v, leaf)))
         ELSE Set(branch, nodeName, SeqNode(<<Get(branch, nodeName), leaf>>))
    ELSE IF o.forceArrays /\ ~isTree
         THEN Set(branch, nodeName, SeqNode(<<leaf>>))
         ELSE Set(branch, nodeName, leaf)

RECURSIVE swallow(_, _, _, _)
\* the loop of parseCommentNode, parseDTDNode and parseCDATANode: take segments up
\* to the next '>' until the tag ends in term; nci is patNextClose.lastIndex
swallow(s, tag, nci, term) ==
    IF EndsWith(tag, term) THEN [ok |-> TRUE, tag |-> tag, nci |-> nci]
    ELSE LET m == patNextCloseExec(s, nci + 1)
         IN  IF m.found THEN swallow(s, tag \o <<">">> \o m.seg, m.last, term)
             ELSE [ok |-> FALSE, tag |-> tag, nci |-> 0]

----------------------------------------------------------------------------
(* Tree builder: the state machine *)

\* one live call of parse(branch, name); raw is attribsRaw of the tag that opened it
Frame(branch, name, raw) == [branch |-> branch, name |-> name, raw |-> raw]

Top == stack[Len(stack)]

SetTop(st, branch) == [st EXCEPT ![Len(st)].branch = branch]

\* matches = this.patTag.exec(this.text)
Match == patTagExec(text, lastIndex + 1)

\* the stack once the text before the matched tag has been taken
Before == SetTop(stack, withBefore(opts, Top.branch, Match.before))

Std == patStandardTag(Match.tag)

NodeName == IF opts.lowerCase THEN toLowerCase(Std.nodeName) ELSE Std.nodeName

Scanning == pc = "scan" /\ Match.found

NoKey == ErrorKey("", <<>>)

\* how one pass of the loop ends
Continue(st, li, nci, pi, dtd, rec) ==
    [kind |-> "continue", stack |-> st, li |-> li, nci |-> nci, pi |-> pi, dtd |-> dtd,
     rec |-> rec, key |-> NoKey, etag |-> <<>>]

Throw(st, li, nci, msg, expected, etag) ==
    [kind |-> "throw", stack |-> st, li |-> li, nci |-> nci, pi |-> piNodeList,
     dtd |-> dtdNodeList, rec |-> recorded, key |-> ErrorKey(msg, expected), etag |-> etag]

Finish(st, li) ==
    [kind |-> "finish", stack |-> st, li |-> li, nci |-> nextCloseIndex, pi |-> piNodeList,
     dtd |-> dtdNodeList, rec |-> recorded, key |-> NoKey, etag |-> <<>>]

\* a finished child is collapsed and attached to the frame on top of st; the
\* outermost call then breaks out of its loop
Attached(st, nodeName, leaf, li) ==
    LET st2 == SetTop(st, attach(opts, st[Len(st)].branch, nodeName,
                                 collapse(opts, leaf), Len(st) = 1))
    IN  IF Len(st) = 1 THEN Finish(st2, li)
        ELSE Continue(st2, li, nextCloseIndex, piNodeList, dtdNodeList, recorded)

\* an end of a pass whose error is recorded and not thrown: the scan goes on
ApplyAndGoOn(o) ==
    LET root == Delete(o.stack[1].branch, opts.dataKey)
        over == o.kind = "finish" /\ numKeys(root) > 1
        thrown == o.kind = "throw" \/ over
        doc  == firstKey(root)
        errs == IF over
                THEN Append(errors, errorRecord(text,
                         ErrorKey("Only one top-level node is allowed in document", <<>>),
                         doc, o.li))
                ELSE IF thrown
                THEN Append(errors, errorRecord(text, o.key, o.etag, o.li))
                ELSE errors
    IN  /\ lastIndex' = o.li
        /\ nextCloseIndex' = o.nci
        /\ piNodeList' = o.pi
        /\ dtdNodeList' = o.dtd
        /\ recorded' = o.rec
        /\ stack' = IF o.kind = "finish" THEN <<>> ELSE o.stack
        /\ errors' = errs
        /\ tree' = IF o.kind = "continue" THEN tree
                   ELSE IF o.kind = "throw" THEN o.stack[1].branch
                   ELSE IF over THEN root
                   ELSE IF doc # NoName /\ ~opts.preserveDocumentNode THEN Get(root, doc)
                   ELSE root
        /\ documentNodeName' = IF o.kind = "finish" /\ ~over THEN doc ELSE documentNodeName
        /\ pc' = IF o.kind = "finish" THEN (IF over THEN "raised" ELSE "parsed") ELSE "scan"
        /\ result' = IF thrown THEN [kind |-> "exception", error |-> getLastError(errs)]
                     ELSE result
        /\ UNCHANGED <<opts, text, origin, composed, mutations>>
        /\ UNCHANGED <<codecVars, peer, ser>>

\* the end of the outermost call (src/xml.js:201-216), or an error thrown
Apply(o) ==
    LET root == Delete(o.stack[1].branch, opts.dataKey)
        over == o.kind = "finish" /\ numKeys(root) > 1
        thrown == o.kind = "throw" \/ over
        doc  == firstKey(root)
        errs == IF over
                THEN Append(errors, errorRecord(text,
                         ErrorKey("Only one top-level node is allowed in document", <<>>),
                         doc, o.li))
                ELSE IF thrown
                THEN Append(errors, errorRecord(text, o.key, o.etag, o.li))
                ELSE errors
    IN  /\ lastIndex' = o.li
        /\ nextCloseIndex' = o.nci
        /\ piNodeList' = o.pi
        /\ dtdNodeList' = o.dtd
        /\ recorded' = o.rec
        /\ stack' = IF o.kind = "continue" THEN o.stack ELSE <<>>
        /\ errors' = errs
        /\ tree' = IF o.kind = "continue" THEN tree
                   ELSE IF o.kind = "throw" THEN o.stack[1].branch
                   ELSE IF over THEN root
                   ELSE IF doc # NoName /\ ~opts.preserveDocumentNode THEN Get(root, doc)
                   ELSE root
        /\ documentNodeName' = IF o.kind = "finish" /\ ~over THEN doc ELSE documentNodeName
        /\ pc' = IF o.kind = "continue" THEN "scan"
                 ELSE IF thrown THEN "raised" ELSE "parsed"
        /\ result' = IF thrown THEN [kind |-> "exception", error |-> getLastError(errs)]
                     ELSE result
        /\ UNCHANGED <<opts, text, origin, composed, mutations>>
        /\ UNCHANGED <<codecVars, peer, ser>>

\* an end of the loop that does not look for the closing tag
ScanEndUnchecked ==
    /\ pc = "scan"
    /\ ~Match.found
    /\ Apply(Finish(stack, 0))

\* patTag finds no further tag: the loop ends (and exec resets lastIndex)
ScanEnd ==
    /\ pc = "scan"
    /\ ~Match.found
    /\ Apply(IF Top.name # NoName
             THEN Throw(stack, 0, nextCloseIndex, "Missing closing tag",
                        ExpectedName(Top.name), Top.name)
             ELSE Finish(stack, 0))

\* <?...>
ScanPI ==
    /\ Scanning
    /\ patSpecialTag(Match.tag) /\ patPITag(Match.tag)
    /\ Apply(IF patPINode(Match.tag)
             THEN Continue(Before, Match.last, nextCloseIndex,
                           Append(piNodeList, Match.tag), dtdNodeList,
                           Append(recorded, [kind |-> "pi", tag |-> Match.tag]))
             ELSE Throw(Before, Match.last, nextCloseIndex,
                        "Malformed processor instruction", <<>>, Match.tag))

\* a comment step that sends the master cursor back to the start of the text
ScanCommentRewind ==
    /\ Scanning
    /\ patSpecialTag(Match.tag) /\ ~patPITag(Match.tag) /\ patCommentTag(Match.tag)
    /\ Apply(Continue(Before, 0, nextCloseIndex, piNodeList, dtdNodeList, recorded))

\* <!-- ... -->
ScanComment ==
    /\ Scanning
    /\ patSpecialTag(Match.tag) /\ ~patPITag(Match.tag) /\ patCommentTag(Match.tag)
    /\ LET r == swallow(text, Match.tag, Match.last, <<"-","-">>)
       IN  Apply(IF r.ok
                 THEN Continue(Before, r.nci, r.nci, piNodeList, dtdNodeList, recorded)
                 ELSE Throw(Before, Match.last, r.nci, "Unclosed comment tag", <<>>, r.tag))

\* <!DOCTYPE ...>
ScanDTD ==
    /\ Scanning
    /\ patSpecialTag(Match.tag) /\ ~patPITag(Match.tag) /\ ~patCommentTag(Match.tag)
    /\ patDTDTag(Match.tag)
    /\ LET r == swallow(text, Match.tag, Match.last, <<"]">>)
       IN  Apply(IF patExternalDTDNode(Match.tag)
                 THEN Continue(Before, Match.last, nextCloseIndex, piNodeList,
                               Append(dtdNodeList, Match.tag),
                               Append(recorded, [kind |-> "dtd", tag |-> Match.tag]))
                 ELSE IF ~patInlineDTDNode(Match.tag)
                 THEN Throw(Before, Match.last, nextCloseIndex, "Malformed DTD tag", <<>>,
                            Match.tag)
                 ELSE IF ~r.ok
                 THEN Throw(Before, Match.last, r.nci, "Unclosed DTD tag", <<>>, r.tag)
                 ELSE IF patDTDNode(r.tag)
                 THEN Continue(Before, r.nci, r.nci, piNodeList,
                               Append(dtdNodeList, r.tag),
                               Append(recorded, [kind |-> "dtd", tag |-> r.tag]))
                 ELSE Throw(Before, r.nci, r.nci, "Malformed DTD tag", <<>>, r.tag))

\* a CDATA step that takes the master cursor from the close cursor as it was
\* before the sub-scanner ran
ScanCDATAStale ==
    /\ Scanning
    /\ patSpecialTag(Match.tag) /\ ~patPITag(Match.tag) /\ ~patCommentTag(Match.tag)
    /\ ~patDTDTag(Match.tag) /\ patCDATATag(Match.tag)
    /\ LET r == swallow(text, Match.tag, Match.last, <<"]","]">>)
           m == patCDATANode(r.tag)
       IN  Apply(IF ~r.ok
                 THEN Throw(Before, Match.last, r.nci, "Unclosed CDATA tag", <<>>, r.tag)
                 ELSE IF ~m.found
                 THEN Throw(Before, r.nci, r.nci, "Malformed CDATA tag", <<>>, r.tag)
                 ELSE Continue(SetTop(Before, withCDATA(opts, Before[Len(Before)].branch,
                                                        m.payload)),
                               nextCloseIndex, r.nci, piNodeList, dtdNodeList, recorded))

\* <![CDATA[ ... ]]>
ScanCDATA ==
    /\ Scanning
    /\ patSpecialTag(Match.tag) /\ ~patPITag(Match.tag) /\ ~patCommentTag(Match.tag)
    /\ ~patDTDTag(Match.tag) /\ patCDATATag(Match.tag)
    /\ LET r == swallow(text, Match.tag, Match.last, <<"]","]">>)
           m == patCDATANode(r.tag)
       IN  Apply(IF ~r.ok
                 THEN Throw(Before, Match.last, r.nci, "Unclosed CDATA tag", <<>>, r.tag)
                 ELSE IF ~m.found
                 THEN Throw(Before, r.nci, r.nci, "Malformed CDATA tag", <<>>, r.tag)
                 ELSE Continue(SetTop(Before, withCDATA(opts, Before[Len(Before)].branch,
                                                        m.payload)),
                               r.nci, r.nci, piNodeList, dtdNodeList, recorded))

\* any other tag that starts with ! or ?
ScanMalformedSpecial ==
    /\ Scanning
    /\ patSpecialTag(Match.tag) /\ ~patPITag(Match.tag) /\ ~patCommentTag(Match.tag)
    /\ ~patDTDTag(Match.tag) /\ ~patCDATATag(Match.tag)
    /\ Apply(Throw(Before, Match.last, nextCloseIndex, "Malformed special tag", <<>>,
                   Match.tag))

\* a standard tag with no name
ScanMalformedTag ==
    /\ Scanning
    /\ ~patSpecialTag(Match.tag) /\ ~Std.found
    /\ Apply(Throw(Before, Match.last, nextCloseIndex, "Malformed tag", <<>>, Match.tag))

\* </name>: the call returns to its caller, which attaches the finished leaf
ScanClose ==
    /\ Scanning
    /\ ~patSpecialTag(Match.tag) /\ Std.found /\ Std.closing
    /\ Apply(IF NodeName = Top.name
             THEN Attached(SubSeq(stack, 1, Len(stack) - 1), Top.name,
                           Before[Len(Before)].branch, Match.last)
             ELSE Throw(Before, Match.last, nextCloseIndex, "Mismatched closing tag",
                        ExpectedName(Top.name), Match.tag))

\* <name ...>: recurse for nested nodes
ScanOpen ==
    /\ Scanning
    /\ ~patSpecialTag(Match.tag) /\ Std.found /\ ~Std.closing
    /\ ~patSelfClosing(Std.attribsRaw)
    /\ Apply(Continue(Append(Before, Frame(newLeaf(opts, Std.attribsRaw), NodeName, Std.attribsRaw)),
                      Match.last, nextCloseIndex, piNodeList, dtdNodeList, recorded))

\* <name .../>
ScanSelfClose ==
    /\ Scanning
    /\ ~patSpecialTag(Match.tag) /\ Std.found /\ ~Std.closing
    /\ patSelfClosing(Std.attribsRaw)
    /\ Apply(Attached(Before, NodeName, newLeaf(opts, Std.attribsRaw), Match.last))

\* parse(text, opts) returns (src/xml.js:401)
Return ==
    /\ pc = "parsed"
    /\ result' = IF Len(errors) # 0
                 THEN [kind |-> "string", error |-> getLastError(errors)]
                 ELSE [kind |-> "tree", error |-> NoError]
    /\ pc' = "returned"
    /\ UNCHANGED <<opts, text, lastIndex, nextCloseIndex, stack, tree, errors, piNodeList,
                   dtdNodeList, documentNodeName, origin, recorded, composed, mutations>>
    /\ UNCHANGED <<codecVars, peer, ser>>

----------------------------------------------------------------------------
(* Serializer *)

\* xml_header = '<?xml version="1.0"?>'
xml_header ==
    <<"<","?","x","m","l"," ","v","e","r","s","i","o","n","=","\"","1",".","0","\"","?",">">>

ATTRIBS == <<"_","A","t","t","r","i","b","s">>

DATA == <<"_","D","a","t","a">>

\* re_valid_tag_name = /^\w[\w\-:.]*$/
re_valid_tag_name(key) ==
    /\ Len(key) >= 1
    /\ key[1] \in WordChars
    /\ \A i \in 2..Len(key) : key[i] \in NameChars

\* the characters in the order of their code units
CodeOrder ==
    <<"\t", "\n", "\r", " ", "!", "\"", "#", "$", "%", "&", "'", "(", ")", "*", "+", ",",
      "-", ".", "/", "0", "1", "2", "3", "4", "5", "6", "7", "8", "9", ":", ";", "<", "=",
      ">", "?", "@", "A", "B", "C", "D", "E", "F", "G", "H", "I", "J", "K", "L", "M", "N",
      "O", "P", "Q", "R", "S", "T", "U", "V", "W", "X", "Y", "Z", "[", "\\", "]", "^", "_",
      "a", "b", "c", "d", "e", "f", "g", "h", "i", "j", "k", "l", "m", "n", "o", "p",
      "q", "r", "s", "t", "u", "v", "w", "x", "y", "z", "{", "|", "}", "~">>

CharCode(c) == CHOOSE i \in 1..Len(CodeOrder) : CodeOrder[i] = c

RECURSIVE StrLess(_, _)
\* a < b as JS compares strings
StrLess(a, b) ==
    IF b = <<>> THEN FALSE
    ELSE IF a = <<>> THEN TRUE
    ELSE IF a[1] = b[1] THEN StrLess(Tail(a), Tail(b))
    ELSE CharCode(a[1]) < CharCode(b[1])

RECURSIVE sortKeys(_)
\* Array.prototype.sort() on an array of distinct strings
sortKeys(keys) ==
    IF keys = <<>> THEN <<>>
    ELSE LET least == CHOOSE i \in 1..Len(keys) :
                          \A j \in 1..Len(keys) : j = i \/ StrLess(keys[i], keys[j])
         IN  <<keys[least]>> \o sortKeys(SubSeq(keys, 1, least - 1) \o Drop(keys, least))

RECURSIVE repeat(_, _)
repeat(s, n) == IF n = 0 THEN <<>> ELSE s \o repeat(s, n - 1)

\* a name as string concatenation prints it
PrintName(name) == ExpectedName(name)

\* text of a node used as a string; undefined and null give the empty string
AsString(node) == IF node.t = "T" THEN node.v ELSE <<>>

\* JS truthiness of a node
Truthy(node) == node.t \in {"E", "S"} \/ (node.t = "T" /\ node.v # <<>>)

RECURSIVE stringifyAttribs(_, _)
stringifyAttribs(attribs, keys) ==
    IF keys = <<>> THEN <<>>
    ELSE <<" ">> \o Head(keys) \o <<"=", "\"">>
             \o encodeAttribEntities(AsString(Get(attribs, Head(keys)))) \o <<"\"">>
             \o stringifyAttribs(attribs, Tail(keys))

\* what an operation leaves when it dies of a TypeError
TypeError == <<"TypeError">>

\* node = node[name] of an undefined node (src/xml.js:473)
stringifyThrows(node, name, indent) == indent = 0 /\ name = NoName /\ node.t = "U"

RECURSIVE stringify(_, _, _, _, _, _)
RECURSIVE stringifyKeys(_, _, _, _, _, _)
RECURSIVE stringifyItems(_, _, _, _, _, _)

\* the loop over the keys of an Element (src/xml.js:510-516)
stringifyKeys(node, keys, indent, indent_string, eol, sort) ==
    IF keys = <<>> THEN <<>>
    ELSE (IF Head(keys) # ATTRIBS /\ re_valid_tag_name(Head(keys))
          THEN stringify(Get(node, Head(keys)), Head(keys), indent + 1, indent_string, eol, sort)
          ELSE <<>>)
         \o stringifyKeys(node, Tail(keys), indent, indent_string, eol, sort)

\* the loop over the items of a Sequence (src/xml.js:527-530)
stringifyItems(items, name, indent, indent_string, eol, sort) ==
    IF items = <<>> THEN <<>>
    ELSE stringify(Head(items), name, indent, indent_string, eol, sort)
         \o stringifyItems(Tail(items), name, indent, indent_string, eol, sort)

\* stringify(node, name, indent, indent_string, eol, sort)
stringify(node0, name0, indent, indent_string, eol, sort) ==
    LET unnamed == indent = 0 /\ name0 = NoName
        name == IF unnamed THEN firstKey(node0) ELSE name0
        node == IF unnamed THEN Get(node0, name) ELSE node0
        head == IF indent = 0 THEN xml_header \o eol ELSE <<>>
        indent_text == repeat(indent_string, indent)
        order(keys) == IF sort THEN sortKeys(keys) ELSE keys
        has_attribs == IF Has(node, ATTRIBS) THEN 1 ELSE 0
        open == indent_text \o <<"<">> \o PrintName(name)
                  \o (IF has_attribs = 1
                      THEN stringifyAttribs(Get(node, ATTRIBS),
                                            order(hashKeysToArray(Get(node, ATTRIBS))))
                      ELSE <<>>)
        close == <<"<","/">> \o PrintName(name) \o <<">">> \o eol
    IN  IF stringifyThrows(node0, name0, indent) THEN TypeError ELSE
        head \o
        (IF node.t = "E"
         THEN IF numKeys(node) > has_attribs
              THEN IF Truthy(Get(node, DATA))
                   THEN open \o <<">">> \o encodeEntities(AsString(Get(node, DATA))) \o close
                   ELSE open \o <<">">> \o eol
                          \o stringifyKeys(node, order(hashKeysToArray(node)), indent,
                                           indent_string, eol, sort)
                          \o indent_text \o close
              ELSE open \o <<"/",">">> \o eol
         ELSE IF node.t = "S"
         THEN stringifyItems(node.v, name, indent, indent_string, eol, sort)
         ELSE indent_text \o <<"<">> \o PrintName(name) \o <<">">>
                \o encodeEntities(AsString(node)) \o close)

LENGTH == <<"l","e","n","g","t","h">>

DigitSeq == <<"0","1","2","3","4","5","6","7","8","9">>

DigitValue(c) == (CHOOSE i \in 1..10 : DigitSeq[i] = c) - 1

RECURSIVE decimal(_)
\* the value of a string of decimal digits
decimal(str) ==
    IF str = <<>> THEN 0
    ELSE 10 * decimal(SubSeq(str, 1, Len(str) - 1)) + DigitValue(str[Len(str)])

RECURSIVE indexKey(_)
\* an array index as a property name
indexKey(n) ==
    IF n < 10 THEN <<DigitSeq[n + 1]>> ELSE indexKey(n \div 10) \o <<DigitSeq[(n % 10) + 1]>>

\* node.length as JS reads it: the item count of an array, the child of that
\* name of a hash, undefined otherwise
lengthOf(node) ==
    IF node.t = "S" THEN Text(indexKey(Len(node.v)))
    ELSE IF node.t = "E" THEN Get(node, LENGTH)
    ELSE Undef

\* !node.length is false: the copy takes the node for an array
lengthTruthy(node) ==
    IF node.t = "S" THEN Len(node.v) > 0 ELSE Truthy(lengthOf(node))

\* how many times idx < node.length holds from idx = 0: the number a string of
\* digits denotes, none when the comparison is with NaN
loopCount(node) ==
    LET len == lengthOf(node)
    IN  IF len.t = "T" /\ len.v # <<>> /\ \A i \in 1..Len(len.v) : len.v[i] \in Digits
        THEN decimal(len.v)
        ELSE 0

\* node[idx]
itemAt(node, idx) ==
    IF node.t = "S" THEN node.v[idx + 1] ELSE Get(node, indexKey(idx))

RECURSIVE stringify000(_, _, _, _, _, _)
RECURSIVE stringifyKeys000(_, _, _, _, _, _)
RECURSIVE stringifyItems000(_, _, _, _, _, _, _)

\* the loop over the keys of a hash (src/unnamed/part_000:567-573)
stringifyKeys000(node, keys, indent, indent_string, eol, sort) ==
    IF keys = <<>> THEN <<>>
    ELSE (IF Head(keys) # ATTRIBS /\ re_valid_tag_name(Head(keys))
          THEN stringify000(Get(node, Head(keys)), Head(keys), indent + 1, indent_string,
                            eol, sort)
          ELSE <<>>)
         \o stringifyKeys000(node, Tail(keys), indent, indent_string, eol, sort)

\* the loop for (idx = 0; idx < node.length; idx++), from idx on
stringifyItems000(node, idx, name, indent, indent_string, eol, sort) ==
    IF idx >= loopCount(node) THEN <<>>
    ELSE stringify000(itemAt(node, idx), name, indent, indent_string, eol, sort)
         \o stringifyItems000(node, idx + 1, name, indent, indent_string, eol, sort)

\* stringify(node, name, indent, indent_string, eol, sort) of src/unnamed/part_000
stringify000(node0, name0, indent, indent_string, eol, sort) ==
    LET unnamed == indent = 0 /\ name0 = NoName
        name == IF unnamed THEN firstKey(node0) ELSE name0
        node == IF unnamed THEN Get(node0, name) ELSE node0
        head == IF indent = 0 THEN xml_header \o eol ELSE <<>>
        indent_text == repeat(indent_string, indent)
        order(keys) == IF sort THEN sortKeys(keys) ELSE keys
        num_keys == IF node.t = "E" THEN numKeys(node) ELSE 0
        has_attribs == IF node.t = "E" /\ Truthy(Get(node, ATTRIBS)) THEN 1 ELSE 0
        open == indent_text \o <<"<">> \o PrintName(name)
                  \o (IF has_attribs = 1
                      THEN stringifyAttribs(Get(node, ATTRIBS),
                                            order(hashKeysToArray(Get(node, ATTRIBS))))
                      ELSE <<>>)
        close == <<"<","/">> \o PrintName(name) \o <<">">> \o eol
    IN  IF stringifyThrows(node0, name0, indent) THEN TypeError ELSE
        head \o
        (IF node.t \in {"E", "S"}
         THEN IF ~lengthTruthy(node)
              THEN IF num_keys > has_attribs
                   THEN IF Truthy(Get(node, DATA))
                        THEN open \o <<">">> \o encodeEntities(AsString(Get(node, DATA)))
                               \o close
                        ELSE open \o <<">">> \o eol
                               \o stringifyKeys000(node, order(hashKeysToArray(node)),
                                                   indent, indent_string, eol, sort)
                               \o indent_text \o close
                   ELSE open \o <<"/",">">> \o eol
              ELSE stringifyItems000(node, 0, name, indent, indent_string, eol, sort)
         ELSE indent_text \o <<"<">> \o PrintName(name) \o <<">">>
                \o encodeEntities(AsString(node)) \o close)

\* raw.replace(/^\s*<\?.+?\?>\s*/, '')
stripDeclaration(raw) ==
    LET i == SkipWs(raw, 1)
        ends == {j \in (i + 3)..(Len(raw) - 1) :
                    /\ raw[j] = "?" /\ raw[j + 1] = ">"
                    /\ \A n \in (i + 2)..(j - 1) : raw[n] \notin LineTerminators}
    IN  IF StartsWithAt(raw, i, <<"<","?">>) /\ ends # {}
        THEN Drop(raw, SkipWs(raw, (CHOOSE j \in ends : \A j2 \in ends : j <= j2) + 2) - 1)
        ELSE raw

RECURSIVE wrapAll(_, _)
\* '<' + tag + '>' + eol for each tag of a list
wrapAll(tags, eol) ==
    IF tags = <<>> THEN <<>>
    ELSE <<"<">> \o Head(tags) \o <<">">> \o eol \o wrapAll(Tail(tags), eol)

\* a preamble that replays the DTD tags ahead of the PI tags
preambleDTDFirst(pis, dtds, eol) ==
    wrapAll(dtds, eol) \o (IF Len(pis) > 0 THEN wrapAll(pis, eol) ELSE xml_header \o eol)

\* the preamble of compose: the recorded PI tags, or the header, then the DTD tags
preamble(pis, dtds, eol) ==
    (IF Len(pis) > 0 THEN wrapAll(pis, eol) ELSE xml_header \o eol) \o wrapAll(dtds, eol)

\* compose(indent_string, eol)
compose(o, t, docName, pis, dtds, indent_string, eol) ==
    LET node == IF o.preserveDocumentNode THEN Get(t, docName) ELSE t
    IN  IF stringifyThrows(node, docName, 0) THEN TypeError
        ELSE preamble(pis, dtds, eol)
               \o stripDeclaration(stringify(node, docName, 0, indent_string, eol, TRUE))

----------------------------------------------------------------------------
(* Bounded sets of inputs *)

\* All concatenations of at most n members of the sequence toks.
RECURSIVE Concats(_, _)
Concats(toks, n) ==
    IF n = 0 THEN {<<>>}
    ELSE LET shorter == Concats(toks, n - 1)
         IN  shorter \cup {d \o toks[i] : d \in shorter, i \in 1..Len(toks)}

\* the tokens documents are made of
tOpenA == <<"<","a",">">>

tCloseA == <<"<","/","a",">">>

tOpenB == <<"<","b",">">>

tCloseB == <<"<","/","b",">">>

tEmptyA == <<"<","a","/",">">>

tEmptyB == <<"<","b","/",">">>

tX1 == <<"<","x",">","1","<","/","x",">">>

tX2 == <<"<","x",">","2","<","/","x",">">>

tHello == <<"h","e","l","l","o">>

tAmpText == <<" ","t","&","a","m","p",";","&","l","t",";"," ">>

tNewline == <<"\n">>

tOpenAX == <<"<","a"," ","x","=","\"","1","\"",">">>

tOpenNK == <<"<","n"," ","k","=","\"","v","\"",">">>

tOpenUpper == <<"<","A"," ","K","=","'","&","q","u","o","t",";","'"," ","k","=","\"","2","\"",">">>

tAttrB == <<"<","b"," ","k","=","\"","v","\""," ","j"," ","="," ","'","w","'","/",">">>

tPI == <<"<","?","x","m","l"," ","v","e","r","s","i","o","n","=","\"","1",".","0","\"","?",">">>

tPI2 == <<"<","?","p","i","?",">">>

tBadPI == <<"<","?"," ","?",">">>

tExtDTD == <<"<","!","D","O","C","T","Y","P","E"," ","a"," ","S","Y","S","T","E","M"," ","\"","a",".","d","t","d","\"",">">>

tInlineDTD == <<"<","!","D","O","C","T","Y","P","E"," ","a"," ","[","<","!","E","L","E","M","E","N","T"," ","a",">","]",">">>

tOpenDTD == <<"<","!","D","O","C","T","Y","P","E"," ","a"," ","[","<","b",">">>

tBadDTD == <<"<","!","D","O","C","T","Y","P","E",">">>

tComment == <<"<","!","-","-"," ","a",">","b"," ","-","-",">">>

tOpenComment == <<"<","!","-","-"," ","c",">">>

tCDATA == <<"<","!","[","C","D","A","T","A","[","<","b",">","&","a","m","p",";","]","]",">">>

tOpenCDATA == <<"<","!","[","C","D","A","T","A","[","x",">">>

tBadCDATA == <<"<","!","[","C","D","A","T","A","]","]",">">>

tBadSpecial == <<"<","!","x",">">>

tBadTag == <<"<","=",">">>

tText == <<"t","e","x","t">>

docHello == tOpenA \o tHello \o tCloseA

docMismatched == tOpenA \o tOpenB \o tCloseA

docMissing == tOpenA \o tOpenB

docAttrib == tOpenNK \o tText \o <<"<","/","n",">">>

docCDATA == tOpenA \o tCDATA \o tCloseA

docTwoRoots == tEmptyA \o tEmptyB

\* special tags that never end, with a line break in what their loop swallows
docUnclosedComment == tOpenComment \o tNewline \o tOpenA

docUnclosedCDATA == tOpenCDATA \o tNewline \o tOpenA

docUnclosedDTD == tOpenDTD \o tNewline \o tOpenA

\* an element left open on the second line
docMissingLine2 == tOpenA \o tNewline \o tOpenB

\* the documents the specification names, and some nesting
ExampleDocs ==
    {docHello, docMismatched, docMissing, docAttrib, docCDATA, docTwoRoots,
     docUnclosedComment, docUnclosedCDATA, docUnclosedDTD, docMissingLine2,
     tOpenA \o tNewline \o tOpenB \o tCloseB,
     tOpenA \o tOpenB \o tX1 \o tX1 \o tCloseB \o tOpenB \o tHello \o tCloseB \o tCloseA}

MaxToks == 2

FlatToks ==
    <<tOpenA, tCloseA, tOpenB, tEmptyA, tEmptyB, tHello, tNewline, tPI, tBadPI, tExtDTD,
      tOpenDTD, tBadDTD, tComment, tOpenComment, tCDATA, tOpenCDATA, tBadCDATA,
      tBadSpecial, tBadTag, tOpenUpper>>

\* any short run of tokens: well-formed or not
FlatDocs == Concats(FlatToks, MaxToks)

MaxInner == 3

InnerToks == <<tX1, tX2, tEmptyB, tAttrB, tAmpText, tCDATA, tComment, tNewline>>

\* one root element around a run of children, text and special tags
BodyDocs ==
    {open \o inner \o tCloseA :
        open \in {tOpenA, tOpenAX}, inner \in Concats(InnerToks, MaxInner)}

MaxPrologue == 2

PrologueToks == <<tPI, tPI2, tExtDTD, tInlineDTD, tNewline>>

\* a prologue ahead of a small root element
PrologueDocs ==
    {pro \o body :
        pro \in Concats(PrologueToks, MaxPrologue),
        body \in {tEmptyA, docAttrib}}

Docs == FlatDocs \cup BodyDocs \cup PrologueDocs \cup ExampleDocs

DefaultOpts ==
    [preserveDocumentNode |-> FALSE, preserveAttributes |-> FALSE,
     preserveWhitespace |-> FALSE, lowerCase |-> FALSE, forceArrays |-> FALSE,
     attribsKey |-> ATTRIBS, dataKey |-> DATA, copy |-> "xml.js"]

PreserveOpts == [DefaultOpts EXCEPT !.preserveAttributes = TRUE]

\* the constructor lower-cases the two reserved keys (src/xml.js:51-54)
construct(o) ==
    IF o.lowerCase
    THEN [o EXCEPT !.attribsKey = toLowerCase(@), !.dataKey = toLowerCase(@)]
    ELSE o

OptionSets ==
    {construct(o) : o \in
        {DefaultOpts,
         PreserveOpts,
         [DefaultOpts EXCEPT !.forceArrays = TRUE],
         [DefaultOpts EXCEPT !.forceArrays = TRUE, !.preserveAttributes = TRUE,
                             !.preserveDocumentNode = TRUE],
         [DefaultOpts EXCEPT !.preserveAttributes = TRUE, !.lowerCase = TRUE,
                             !.preserveDocumentNode = TRUE],
         [DefaultOpts EXCEPT !.preserveWhitespace = TRUE]}}

MaxItems == 2

RootName == <<"r">>

Attr(kv) == <<[k |-> ATTRIBS, v |-> Elem(kv)]>>

Data(s) == <<[k |-> DATA, v |-> Text(s)]>>

Child(key, node) == <<[k |-> key, v |-> node]>>

\* the nodes a child key of a tree may hold
Leaves ==
    {Text(<<"1">>), Text(<<"t"," ","&","<">>), EmptyElem,
     Elem(Attr(Child(<<"k">>, Text(<<"\"","v",">">>))) \o Data(<<"d">>)),
     Elem(Data(<<"d">>) \o Child(<<"c">>, Text(<<"1">>)))}

RECURSIVE Tuples(_, _)
\* the sequences of exactly n members of S
Tuples(S, n) ==
    IF n = 0 THEN {<<>>} ELSE {Append(t, x) : t \in Tuples(S, n - 1), x \in S}

Kids == Leaves \cup {SeqNode(items) : items \in UNION {Tuples(Leaves, n) : n \in 2..MaxItems}}

Optional(S) == {<<>>} \cup S

\* trees in normal form handed to stringify
Trees ==
    {Elem(a \o d \o b \o x) :
        a \in Optional({Attr(Child(<<"k">>, Text(<<"v">>)))}),
        d \in Optional({Data(<<"d">>)}),
        b \in Optional({Child(<<"b">>, n) : n \in Kids}),
        x \in Optional({Child(<<"x">>, n) : n \in {Text(<<"2">>), EmptyElem}})}
      \ {Elem(Data(<<"d">>))}

MaxCodecToks == 3

CodecToks ==
    << <<"&">>, <<"<">>, <<">">>, <<"\"">>, <<"'">>, <<"a">>, <<";">>,
       LTE, AMP, GTE, QUOTE, APOSE, <<"l","t",";">>, <<"a","m","p",";">> >>

CodecStrings == Concats(CodecToks, MaxCodecToks)

\* the nodes handed to both copies of stringify
SerNodes ==
    {Text(<<"1">>), Text(<<"t"," ","&","<">>), EmptyElem,
     SeqNode(<<>>), SeqNode(<<Text(<<"1">>), EmptyElem>>),
     Elem(Attr(Child(<<"k">>, Text(<<"\"","v",">">>))) \o Data(<<"d">>)),
     Elem(Attr(Child(<<"k">>, Text(<<"v">>)))),
     Elem(Child(<<"x">>, Text(<<"2">>)) \o Child(<<"b">>, EmptyElem)),
     Elem(Child(<<"b">>, SeqNode(<<Text(<<"1">>), Text(<<"2">>)>>))),
     Elem(Child(<<"b">>, SeqNode(<<>>))),
     Elem(Child(LENGTH, Text(<<"2">>))),
     Elem(Child(LENGTH, Text(<<>>)) \o Child(<<"x">>, Text(<<"2">>))),
     Elem(Child(<<"b">>, Elem(Child(LENGTH, EmptyElem)))),
     Elem(<<[k |-> ATTRIBS, v |-> Text(<<>>)]>>)}

SerNames == {RootName, NoName}

SerIndents == {<<"\t">>, <<" ", " ">>}

SerEols == {<<"\n">>, <<>>}

\* no call of stringify under way
SerIdle ==
    [on |-> FALSE, node |-> Undef, name |-> NoName, indent_string |-> <<>>, eol |-> <<>>,
     sort |-> TRUE, doneXml |-> FALSE, done000 |-> FALSE, xml |-> <<>>, xml000 |-> <<>>]

\* the arguments of a call: a node that has no name comes wrapped in a hash
SerCalls ==
    {[SerIdle EXCEPT !.on = TRUE, !.node = n, !.name = nm, !.indent_string = ind,
                     !.eol = e, !.sort = srt] :
        n \in SerNodes, nm \in SerNames, ind \in SerIndents, e \in SerEols,
        srt \in BOOLEAN}
      \ {c \in [on : {TRUE}, node : {n \in SerNodes : n.t # "E"}, name : {NoName},
                indent_string : SerIndents, eol : SerEols, sort : BOOLEAN,
                doneXml : {FALSE}, done000 : {FALSE}, xml : {<<>>}, xml000 : {<<>>}] : TRUE}

\* stringify of src/xml.js is called on the arguments
CallXmlJs ==
    /\ ser.on /\ ~ser.doneXml
    /\ ser' = [ser EXCEPT !.doneXml = TRUE,
                          !.xml = stringify(ser.node, ser.name, 0, ser.indent_string,
                                            ser.eol, ser.sort)]
    /\ UNCHANGED <<opts, text, lastIndex, nextCloseIndex, stack, tree, errors, piNodeList,
                   dtdNodeList, documentNodeName, pc, result, origin, recorded, composed,
                   mutations, peer>>
    /\ UNCHANGED codecVars

\* stringify of src/unnamed/part_000 is called on the arguments
CallPart000 ==
    /\ ser.on /\ ~ser.done000
    /\ ser' = [ser EXCEPT !.done000 = TRUE,
                          !.xml000 = stringify000(ser.node, ser.name, 0, ser.indent_string,
                                                  ser.eol, ser.sort)]
    /\ UNCHANGED <<opts, text, lastIndex, nextCloseIndex, stack, tree, errors, piNodeList,
                   dtdNodeList, documentNodeName, pc, result, origin, recorded, composed,
                   mutations, peer>>
    /\ UNCHANGED codecVars

----------------------------------------------------------------------------
(* The entity codec on its own *)

CodecIdle ==
    /\ cin = <<>> /\ cenc = <<>> /\ cdec = <<>> /\ cpc = "off"

CodecEncode ==
    /\ cpc = "in"
    /\ cenc' = encodeEntities(cin)
    /\ cpc' = "content"
    /\ UNCHANGED <<cin, cdec>>

CodecEncodeAttrib ==
    /\ cpc = "in"
    /\ cenc' = encodeAttribEntities(cin)
    /\ cpc' = "attrib"
    /\ UNCHANGED <<cin, cdec>>

CodecDecode ==
    /\ cpc \in {"content", "attrib"}
    /\ cdec' = decodeEntities(cenc)
    /\ cpc' = IF cpc = "content" THEN "decodedContent" ELSE "decodedAttrib"
    /\ UNCHANGED <<cin, cenc>>

----------------------------------------------------------------------------
(* The document wrapper and its callers *)

MaxMutations == 1

\* stringify(tree, name) makes the text that is parsed next
Stringify ==
    /\ pc = "stringify"
    /\ text' = stringify(origin, RootName, 0, <<"\t">>, <<"\n">>, TRUE)
    /\ pc' = "scan"
    /\ UNCHANGED <<opts, lastIndex, nextCloseIndex, stack, tree, errors, piNodeList,
                   dtdNodeList, documentNodeName, result, origin, recorded, composed,
                   mutations>>
    /\ UNCHANGED <<codecVars, peer, ser>>

\* the caller edits the tree it got from getTree() in place
Mutate ==
    /\ pc = "parsed"
    /\ origin.t = "U"
    /\ mutations < MaxMutations
    /\ tree.t = "E"
    /\ \E kind \in {"add", "remove", "retext"} :
          tree' = IF kind = "add" THEN Set(tree, <<"n">>, Text(<<"v","&">>))
                  ELSE IF kind = "remove" THEN Delete(tree, firstKey(tree))
                  ELSE Set(tree, DATA, Text(<<"m">>))
    /\ mutations' = mutations + 1
    /\ composed' = <<>>
    /\ UNCHANGED <<opts, text, lastIndex, nextCloseIndex, stack, errors, piNodeList,
                   dtdNodeList, documentNodeName, pc, result, origin, recorded>>
    /\ UNCHANGED <<codecVars, peer, ser>>

\* compose(indent_string, eol)
Compose ==
    /\ pc = "parsed"
    /\ origin.t = "U"
    /\ composed = <<>>
    /\ composed' = compose(opts, tree, documentNodeName, piNodeList, dtdNodeList,
                           <<"\t">>, <<"\n">>)
    /\ UNCHANGED <<opts, text, lastIndex, nextCloseIndex, stack, tree, errors, piNodeList,
                   dtdNodeList, documentNodeName, pc, result, origin, recorded, mutations>>
    /\ UNCHANGED <<codecVars, peer, ser>>

\* the fields of a second instance new XML(s) whose constructor has not yet reset
\* the cursor and called this.parse(); shared tells whether its patterns are the
\* objects of the first instance (the prototype of src/xml.js) or its own (the
\* class fields of src/unnamed/part_000)
Instance(s, shared) ==
    [on |-> TRUE, shared |-> shared, constructed |-> FALSE, text |-> s,
     lastIndex |-> 0, nextCloseIndex |-> 0,
     stack |-> <<Frame(EmptyElem, NoName, <<>>)>>, tree |-> EmptyElem, errors |-> <<>>,
     piNodeList |-> <<>>, dtdNodeList |-> <<>>, documentNodeName |-> NoName,
     recorded |-> <<>>, pc |-> "scan"]

\* there is no second instance
NoPeer == [Instance(<<>>, FALSE) EXCEPT !.on = FALSE, !.stack = <<>>, !.pc = "off"]

\* the second instance takes the next steps: the first one is set aside. A
\* cursor that lives in a shared pattern object stays where it is, until the
\* constructor of the second instance resets it (src/xml.js:56).
Switch ==
    /\ peer.on
    /\ peer.pc = "scan"
    /\ text' = peer.text
    /\ stack' = peer.stack
    /\ tree' = peer.tree
    /\ errors' = peer.errors
    /\ piNodeList' = peer.piNodeList
    /\ dtdNodeList' = peer.dtdNodeList
    /\ documentNodeName' = peer.documentNodeName
    /\ recorded' = peer.recorded
    /\ pc' = peer.pc
    /\ lastIndex' = IF ~peer.constructed THEN 0
                    ELSE IF peer.shared THEN lastIndex ELSE peer.lastIndex
    /\ nextCloseIndex' = IF peer.shared THEN nextCloseIndex ELSE peer.nextCloseIndex
    /\ peer' = [on |-> TRUE, shared |-> peer.shared, constructed |-> TRUE, text |-> text,
                lastIndex |-> lastIndex, nextCloseIndex |-> nextCloseIndex, stack |-> stack, tree |-> tree,
                errors |-> errors, piNodeList |-> piNodeList, dtdNodeList |-> dtdNodeList,
                documentNodeName |-> documentNodeName, recorded |-> recorded, pc |-> pc]
    /\ UNCHANGED <<opts, result, origin, composed, mutations>>
    /\ UNCHANGED <<codecVars, ser>>

\* new XML(text, opts) up to the call of this.parse() (src/xml.js:33-59)
Constructed(o, s, t) ==
    /\ opts = o
    /\ text = s
    /\ origin = t
    /\ lastIndex = 0
    /\ nextCloseIndex = 0
    /\ tree = EmptyElem
    /\ errors = <<>>
    /\ piNodeList = <<>>
    /\ dtdNodeList = <<>>
    /\ documentNodeName = NoName
    /\ result = [kind |-> "none", error |-> NoError]
    /\ recorded = <<>>
    /\ composed = <<>>
    /\ mutations = 0

Init ==
    /\ CodecIdle
    /\ peer = NoPeer
    /\ ser = SerIdle
    /\ \/ \E o \in OptionSets, s \in Docs :
             /\ Constructed(o, s, Undef)
             /\ stack = IF s = <<>> THEN <<>> ELSE <<Frame(EmptyElem, NoName, <<>>)>>
             /\ pc = IF s = <<>> THEN "parsed" ELSE "scan"
       \/ \E t \in Trees :
             /\ Constructed(PreserveOpts, <<>>, t)
             /\ stack = <<Frame(EmptyElem, NoName, <<>>)>>
             /\ pc = "stringify"

Next ==
    \/ Stringify
    \/ ScanEnd
    \/ ScanPI
    \/ ScanComment
    \/ ScanDTD
    \/ ScanCDATA
    \/ ScanMalformedSpecial
    \/ ScanMalformedTag
    \/ ScanClose
    \/ ScanOpen
    \/ ScanSelfClose
    \/ Return
    \/ Mutate
    \/ Compose

Spec == Init /\ [][Next]_vars

\* the texts two instances parse side by side
PairDocs ==
    {docHello, docMismatched, docMissingLine2, docCDATA, tPI \o tExtDTD \o docAttrib,
     tComment \o tEmptyA, tBadSpecial, tBadTag, tOpenA \o tX1 \o tX2 \o tCloseA}

\* two instances: the constructor of the first is about to call this.parse()
PairInit ==
    /\ CodecIdle
    /\ ser = SerIdle
    /\ \E s \in PairDocs, s2 \in PairDocs, shared \in BOOLEAN :
          /\ Constructed(DefaultOpts, s, Undef)
          /\ stack = <<Frame(EmptyElem, NoName, <<>>)>>
          /\ pc = "scan"
          /\ peer = Instance(s2, shared)

PairNext ==
    \/ ScanEnd
    \/ ScanPI
    \/ ScanComment
    \/ ScanDTD
    \/ ScanCDATA
    \/ ScanMalformedSpecial
    \/ ScanMalformedTag
    \/ ScanClose
    \/ ScanOpen
    \/ ScanSelfClose
    \/ Switch

\* two instances whose scan steps interleave in any order
PairSpec == PairInit /\ [][PairNext]_vars

docEmptyPair == tOpenA \o tOpenB \o tCloseB \o tCloseA

docEmptyTag == tOpenA \o tEmptyB \o tCloseA

\* the texts parsed by each of the two copies of the implementation
CopyDocs == PairDocs \cup {docEmptyPair, docEmptyTag, tOpenA \o tAttrB \o tCloseA}

\* the copy of the implementation an instance is made from
Copies == {"xml.js", "part_000"}

\* an instance of either copy, about to call this.parse()
CopyInit ==
    /\ CodecIdle
    /\ peer = NoPeer
    /\ ser = SerIdle
    /\ \E o \in OptionSets, c \in Copies, s \in CopyDocs :
          /\ Constructed([o EXCEPT !.copy = c], s, Undef)
          /\ stack = <<Frame(EmptyElem, NoName, <<>>)>>
          /\ pc = "scan"

CopyNext ==
    \/ ScanEnd
    \/ ScanPI
    \/ ScanComment
    \/ ScanDTD
    \/ ScanCDATA
    \/ ScanMalformedSpecial
    \/ ScanMalformedTag
    \/ ScanClose
    \/ ScanOpen
    \/ ScanSelfClose

\* one parse pass of either copy
CopySpec == CopyInit /\ [][CopyNext]_vars

\* both copies of stringify, called on the same arguments
SerInit ==
    /\ Constructed(DefaultOpts, <<>>, Undef)
    /\ CodecIdle
    /\ peer = NoPeer
    /\ stack = <<>>
    /\ pc = "off"
    /\ ser \in SerCalls

SerNext ==
    \/ CallXmlJs
    \/ CallPart000

SerSpec == SerInit /\ [][SerNext]_vars

\* the entity codec, run on its own strings
CodecInit ==
    /\ Constructed(DefaultOpts, <<>>, Undef)
    /\ peer = NoPeer
    /\ ser = SerIdle
    /\ stack = <<>>
    /\ pc = "off"
    /\ cin \in CodecStrings
    /\ cenc = <<>>
    /\ cdec = <<>>
    /\ cpc = "in"

CodecNext ==
    \/ CodecEncode /\ UNCHANGED parserVars
    \/ CodecEncodeAttrib /\ UNCHANGED parserVars
    \/ CodecDecode /\ UNCHANGED parserVars

CodecSpec == CodecInit /\ [][CodecNext]_vars

----------------------------------------------------------------------------
(* Claims *)

\* the value of the document's root element in the parsed tree
RootValue == IF opts.preserveDocumentNode THEN Get(tree, documentNodeName) ELSE tree

\* the tree is the one the parse returned: the caller has not edited it
Parsed == pc = "parsed" /\ mutations = 0

RECURSIVE canon(_)
\* a node with the keys of every Element in sorted order: equal for two nodes
\* exactly when they are equal as JS values up to key order
canon(node) ==
    IF node.t = "E"
    THEN LET keys == sortKeys(hashKeysToArray(node))
         IN  Elem([i \in 1..Len(keys) |-> [k |-> keys[i], v |-> canon(Get(node, keys[i]))]])
    ELSE IF node.t = "S"
    THEN SeqNode([i \in 1..Len(node.v) |-> canon(node.v[i])])
    ELSE node

RECURSIVE tagsOf(_, _)
\* the tags of one kind among the recorded prologue tags, in order
tagsOf(rec, kind) ==
    IF rec = <<>> THEN <<>>
    ELSE (IF Head(rec).kind = kind THEN <<Head(rec).tag>> ELSE <<>>) \o tagsOf(Tail(rec), kind)

\* C1: the convenience function parse(text, opts) returns normally on every
\* text: once a parse error is recorded it returns the formatted last error
\* (the value of getLastError()) in place of the tree, and it never raises.
C1_ParseReturnsErrorString ==
    /\ result.kind # "exception"
    /\ (pc = "returned" /\ errors # <<>>) =>
           result = [kind |-> "string", error |-> getLastError(errors)]

TwoRootDocs == {x \o y : x \in {tEmptyA, tEmptyB}, y \in {tEmptyA, tEmptyB}}

\* C2: a text with two top-level elements, such as <a/><b/>, does not parse:
\* the pass ends with the error 'Only one top-level node is allowed in document'.
C2_SecondRootIsFatal ==
    (text \in TwoRootDocs /\ pc # "scan") =>
        /\ pc = "raised"
        /\ errors[Len(errors)].key.msg = "Only one top-level node is allowed in document"

\* C3: for every Element tree in normal form, Elements with both a data entry
\* and child elements included, parsing (preserveAttributes on) the text that
\* stringify(tree, name) returns gives a tree equal to the original.
C3_RoundTrip ==
    (origin.t = "E" /\ Parsed) => canon(tree) = canon(origin)

\* C4: a CDATA payload joins the data exactly as written, with no entity
\* decoding: <a><![CDATA[<b>&amp;]]></a> parses to a == "<b>&amp;".
C4_CDATAIsLiteral ==
    (text = docCDATA /\ Parsed) => RootValue = Text(<<"<","b",">","&","a","m","p",";">>)

\* what compose puts first of the body: '<' and the name of the root element
BodyStart == <<"<">> \o documentNodeName

\* compose() has run on a document with a root element whose scan recorded a
\* processing instruction
ComposedWithPI ==
    /\ pc = "parsed"
    /\ composed # <<>>
    /\ documentNodeName # NoName
    /\ tagsOf(recorded, "pi") # <<>>

\* C5 as stated: compose() after any mutation emits every recorded processing
\* instruction and DOCTYPE, each wrapped in '<' and '>', ahead of the body and
\* in the relative order they had in the source document.
C5_PreambleInSourceOrder ==
    ComposedWithPI =>
        StartsWithAt(composed, 1,
            wrapAll([i \in 1..Len(recorded) |-> recorded[i].tag], <<"\n">>) \o BodyStart)

\* C5 as amended: compose() after any mutation emits the recorded processing
\* instructions in their source order, then the recorded DOCTYPE tags in their
\* source order, each wrapped in '<' and '>', all ahead of the body.
C5_PreambleByKind ==
    ComposedWithPI =>
        StartsWithAt(composed, 1,
            wrapAll(tagsOf(recorded, "pi"), <<"\n">>)
              \o wrapAll(tagsOf(recorded, "dtd"), <<"\n">>) \o BodyStart)

\* compose() ran after a mutation of a tree whose document had a DOCTYPE ahead of
\* a processing instruction
C5_Witness ==
    /\ ComposedWithPI
    /\ mutations > 0
    /\ Len(recorded) >= 2
    /\ recorded[1].kind = "dtd"
    /\ recorded[2].kind = "pi"

RECURSIVE xKids(_, _)
\* the collapsed nodes of the x elements of a body document, in document order
xKids(s, i) ==
    IF i > Len(s) THEN <<>>
    ELSE IF StartsWithAt(s, i, tX1) THEN <<Text(<<"1">>)>> \o xKids(s, i + Len(tX1))
    ELSE IF StartsWithAt(s, i, tX2) THEN <<Text(<<"2">>)>> \o xKids(s, i + Len(tX2))
    ELSE xKids(s, i + 1)

\* node.x
XOf(node) == IF node.t = "E" THEN Get(node, <<"x">>) ELSE Undef

\* the flat attribute x="1" of the root tag, where attributes are merged flat
flatX ==
    IF ~opts.preserveAttributes /\ StartsWithAt(text, 1, tOpenAX)
    THEN <<Text(<<"1">>)>> ELSE <<>>

\* b is a by one item, or a itself
AppendedTo(a, b) ==
    \/ b = a
    \/ Len(b) = Len(a) + 1 /\ SubSeq(b, 1, Len(a)) = a

\* the arrays of a branch from one pass of the loop to the next: an array only
\* grows by appending, and a new array holds the node that was there and one more
GrowsAtSecond(old, new) ==
    \A i \in 1..numKeys(new) :
        LET a == Get(old, new.v[i].k)
            b == new.v[i].v
        IN  /\ a.t = "S" => b.t = "S" /\ AppendedTo(a.v, b.v)
            /\ (a.t # "S" /\ b.t = "S") =>
                   Has(old, new.v[i].k) /\ Len(b.v) = 2 /\ b.v[1] = a

\* as GrowsAtSecond, and forceArrays makes the array at the first occurrence
GrowsByAppending(old, new) ==
    \A i \in 1..numKeys(new) :
        LET a == Get(old, new.v[i].k)
            b == new.v[i].v
        IN  /\ a.t = "S" => b.t = "S" /\ AppendedTo(a.v, b.v)
            /\ (a.t # "S" /\ b.t = "S") =>
                   IF Has(old, new.v[i].k) THEN Len(b.v) = 2 /\ b.v[1] = a
                   ELSE opts.forceArrays /\ Len(b.v) = 1

\* the calls of parse that are live before and after a step
Persisting == 1..(IF Len(stack) < Len(stack') THEN Len(stack) ELSE Len(stack'))

C6_ChildrenAlone ==
    (text \in BodyDocs /\ Parsed) =>
        LET kids == xKids(text, 1)
        IN  /\ (Len(kids) = 1 /\ ~opts.forceArrays) => XOf(RootValue) = kids[1]
            /\ Len(kids) >= 2 => XOf(RootValue) = SeqNode(kids)

C6_CreatedAtSecond ==
    \A j \in Persisting : GrowsAtSecond(stack[j].branch, stack'[j].branch)

\* C6 as stated: a parent with k same-named child elements maps the name to the
\* single child if k = 1 (forceArrays off) and to the Sequence of the k children
\* in document order if k >= 2; the Sequence is created at the second occurrence
\* and only grows by appending afterwards.
C6_CoalescingOfChildren == []C6_ChildrenAlone /\ [][C6_CreatedAtSecond]_vars

C6_EntriesInOrder ==
    (text \in BodyDocs /\ Parsed) =>
        LET kids == xKids(text, 1)
            entries == flatX \o kids
        IN  XOf(RootValue) =
                IF entries = <<>> THEN Undef
                ELSE IF kids = <<>> THEN entries[1]
                ELSE IF Len(entries) = 1 /\ ~opts.forceArrays THEN entries[1]
                ELSE SeqNode(entries)

C6_OnlyAppends ==
    \A j \in Persisting : GrowsByAppending(stack[j].branch, stack'[j].branch)

\* C6 as amended: a flat attribute of the parent (preserveAttributes off) counts
\* as the first entry of its name. A parent with k same-named entries, of which
\* at least one is a child element, maps the name to the single child if k = 1
\* and forceArrays is off, and to the Sequence of the k entries in document
\* order otherwise; the Sequence is created at the second entry, or at the first
\* child when forceArrays is on, and only grows by appending afterwards.
C6_CoalescingOfEntries == []C6_EntriesInOrder /\ [][C6_OnlyAppends]_vars

\* three x children under one parent were parsed into a Sequence of three
C6_Witness ==
    /\ Parsed
    /\ text \in BodyDocs
    /\ Len(xKids(text, 1)) = 3
    /\ flatX = <<>>
    /\ XOf(RootValue).t = "S"
    /\ Len(XOf(RootValue).v) = 3

RECURSIVE NoDataOnly(_)
\* no Element of the node, at any depth, has the data key as its only key
NoDataOnly(node) ==
    IF node.t = "E"
    THEN /\ ~(numKeys(node) = 1 /\ Has(node, opts.dataKey))
         /\ \A i \in 1..numKeys(node) : NoDataOnly(node.v[i].v)
    ELSE IF node.t = "S"
    THEN \A i \in 1..Len(node.v) : NoDataOnly(node.v[i])
    ELSE TRUE

\* C7: in every tree a successful parse returns no Element has the data key as
\* its only key: an element whose only content is text is a bare string, and
\* <a>hello</a> gives a == "hello".
C7_Collapsed ==
    Parsed =>
        /\ NoDataOnly(tree)
        /\ text = docHello => RootValue = Text(tHello)

\* <a>hello</a> was parsed
C7_Witness == Parsed /\ text = docHello /\ RootValue.t = "T"

\* the name an attribute is stored under
AttribKey(m) == IF opts.lowerCase THEN toLowerCase(m.k) ELSE m.k

\* the value the tag gives the attribute stored under key: the last one wins
AttribValue(ms, key) ==
    LET last == CHOOSE i \in 1..Len(ms) :
                    /\ AttribKey(ms[i]) = key
                    /\ \A j \in (i + 1)..Len(ms) : AttribKey(ms[j]) # key
    IN  Text(decodeEntities(ms[last].v))

\* the element of a live call, against the attributes its opening tag carries
AttribsOfTag(f) ==
    LET ms == patAttribAll(f.raw, 1)
        attribs == Get(f.branch, opts.attribsKey)
    IN  IF opts.preserveAttributes
        THEN /\ Has(f.branch, opts.attribsKey) <=> ms # <<>>
             /\ ms # <<>> =>
                    /\ attribs.t = "E"
                    /\ numKeys(attribs) = Cardinality({AttribKey(ms[i]) : i \in 1..Len(ms)})
                    /\ \A i \in 1..Len(ms) :
                           Get(attribs, AttribKey(ms[i])) = AttribValue(ms, AttribKey(ms[i]))
        ELSE /\ ~Has(f.branch, opts.attribsKey)
             /\ \A i \in 1..Len(ms) :
                    LET held == Get(f.branch, AttribKey(ms[i]))
                    IN  \/ held = AttribValue(ms, AttribKey(ms[i]))
                        \/ held.t = "S" /\ held.v[1] = AttribValue(ms, AttribKey(ms[i]))

\* the element <b k="v" j = 'w'/> as the only child of the root
OnlyB == IF opts.forceArrays THEN Get(RootValue, <<"b">>).v[1] ELSE Get(RootValue, <<"b">>)

KV == <<[k |-> <<"k">>, v |-> Text(<<"v">>)]>>

JW == <<[k |-> <<"j">>, v |-> Text(<<"w">>)]>>

\* C8: with preserveAttributes on an element has the attributes key exactly when
\* its tag carries an attribute, the entry maps each attribute name to its
\* decoded value and the text is under the data key (<n k="v">text</n> gives
\* n._Attribs.k == "v" and n._Data == "text"); with preserveAttributes off there
\* is no attributes key and each attribute is a flat key of the element.
C8_Attributes ==
    /\ \A j \in 2..Len(stack) : AttribsOfTag(stack[j])
    /\ (Parsed /\ text = docAttrib) =>
           canon(RootValue) =
               canon(IF opts.preserveAttributes
                     THEN Elem(<<[k |-> opts.attribsKey, v |-> Elem(KV)],
                                 [k |-> opts.dataKey, v |-> Text(tText)]>>)
                     ELSE Elem(KV \o <<[k |-> opts.dataKey, v |-> Text(tText)]>>))
    /\ (Parsed /\ text = tOpenA \o tAttrB \o tCloseA) =>
           canon(OnlyB) =
               canon(IF opts.preserveAttributes
                     THEN Elem(<<[k |-> opts.attribsKey, v |-> Elem(KV \o JW)]>>)
                     ELSE Elem(KV \o JW))
    /\ (Parsed /\ text = tOpenA \o tEmptyB \o tCloseA) => OnlyB = EmptyElem

\* <n k="v">text</n> was parsed with preserveAttributes on
C8_Witness ==
    /\ Parsed
    /\ text = docAttrib
    /\ opts.preserveAttributes
    /\ Has(RootValue, opts.attribsKey)
    /\ Has(RootValue, opts.dataKey)

\* C9: for every string s over ordinary characters and & < > " ', strings that
\* already spell an entity included, decodeEntities(encodeEntities(s)) = s and
\* decodeEntities(encodeAttribEntities(s)) = s.
C9_CodecRoundTrip ==
    cpc \in {"decodedContent", "decodedAttrib"} => cdec = cin

\* a string that spells an entity and holds a quote was encoded for an attribute
\* and decoded
C9_Witness ==
    /\ cpc = "decodedAttrib"
    /\ cin = LTE \o <<"\"">> \o AMP
    /\ cenc # cin
    /\ cdec = cin

\* the error pushed by a step
Raises(msg) ==
    /\ pc' = "raised"
    /\ Len(errors') = Len(errors) + 1
    /\ errors'[Len(errors')].key.msg = msg

C10_Raised ==
    /\ (/\ Scanning
        /\ ~patSpecialTag(Match.tag)
        /\ Std.found
        /\ Std.closing
        /\ NodeName # Top.name) => Raises("Mismatched closing tag")
    /\ (pc = "scan" /\ ~Match.found /\ Top.name # NoName) => Raises("Missing closing tag")

C10_LineOne ==
    /\ (text = docMismatched /\ pc # "scan") =>
           /\ pc = "raised"
           /\ errors[Len(errors)].key = ErrorKey("Mismatched closing tag", <<"b">>)
           /\ errors[Len(errors)].line = 1
    /\ (text = docMissing /\ pc # "scan") =>
           /\ pc = "raised"
           /\ errors[Len(errors)].key = ErrorKey("Missing closing tag", <<"b">>)
           /\ errors[Len(errors)].line = 1

\* C10: a closing tag whose name differs from the element being parsed records
\* 'Mismatched closing tag', and the end of the input with a named element open
\* records 'Missing closing tag'; for <a><b></a> and <a><b> the line is 1.
C10_ClosingTagErrors == []C10_LineOne /\ [][C10_Raised]_vars

\* <a><b></a> recorded its error
C10_Witness ==
    /\ text = docMismatched
    /\ pc = "raised"
    /\ errors # <<>>
    /\ errors[Len(errors)].key.msg = "Mismatched closing tag"
    /\ errors[Len(errors)].line = 1

\* what a parse pass writes
passVars == <<lastIndex, nextCloseIndex, stack, tree, errors, piNodeList, dtdNodeList,
              documentNodeName, recorded>>

C11_AtMostOne == Len(errors) <= 1

C11_NothingAfter == errors # <<>> => UNCHANGED passVars

\* C11: once the first parse error is recorded no further scan step, tree
\* mutation or push onto the PI or DTD list happens at any recursion level, and
\* the error list of the instance never holds more than one entry.
C11_ErrorsAreFatal == []C11_AtMostOne /\ [][C11_NothingAfter]_vars

\* an error was recorded with tags of the text still unread
C11_Witness ==
    /\ pc = "raised"
    /\ Len(errors) = 1
    /\ lastIndex > 0
    /\ patTagExec(text, lastIndex + 1).found

\* the 1-based line of the text on which position i lies
LineOf(i) == 1 + CountChar(SubSeq(text, 1, i - 1), "\n")

\* the position of the '<' of the tag patTag has matched
TagStart == Match.last - Len(Match.tag) - 1

\* a step pushes an error record
Pushes == Len(errors') = Len(errors) + 1

C12_TagLine == (Scanning /\ Pushes) => errors'[Len(errors')].line = LineOf(TagStart)

C12_OpenOnLine2 ==
    (text \in {tNewline \o tOpenA, docMissingLine2} /\ pc = "raised") =>
        errors[Len(errors)].line = 2

\* C12: for every recorded parse error, of every kind, the recorded line is the
\* 1-based line of the source on which the offending tag starts (one plus the
\* newlines consumed up to the tag, less the newlines inside it), also in
\* documents of several lines.
C12_LineOfOffendingTag == []C12_OpenOnLine2 /\ [][C12_TagLine]_vars

\* no '>' after the matched tag closes it with term
NeverEnds(term) ==
    /\ ~EndsWith(Match.tag, term)
    /\ \A p \in (Match.last + 1)..Len(text) :
           text[p] = ">" => ~EndsWith(SubSeq(text, TagStart + 1, p - 1), term)

IsComment == patSpecialTag(Match.tag) /\ ~patPITag(Match.tag) /\ patCommentTag(Match.tag)

IsDTD ==
    /\ patSpecialTag(Match.tag) /\ ~patPITag(Match.tag) /\ ~patCommentTag(Match.tag)
    /\ patDTDTag(Match.tag)

IsCDATA ==
    /\ patSpecialTag(Match.tag) /\ ~patPITag(Match.tag) /\ ~patCommentTag(Match.tag)
    /\ ~patDTDTag(Match.tag) /\ patCDATATag(Match.tag)

\* a step of the scan ends the pass or moves the cursor forward, within the text
C13_Consumes ==
    pc = "scan" => \/ pc' # "scan"
                   \/ lastIndex < lastIndex' /\ lastIndex' <= Len(text)

\* a special tag whose terminator never appears ends the pass with its error
C13_Unclosed ==
    Scanning =>
        /\ (IsComment /\ NeverEnds(<<"-","-">>)) => Raises("Unclosed comment tag")
        /\ (IsCDATA /\ NeverEnds(<<"]","]">>)) => Raises("Unclosed CDATA tag")
        /\ (/\ IsDTD
            /\ ~patExternalDTDNode(Match.tag)
            /\ patInlineDTDNode(Match.tag)
            /\ NeverEnds(<<"]">>)) => Raises("Unclosed DTD tag")

\* the cursor stays within the text, and a pass that has not ended has a live call
C13_Bounded == lastIndex <= Len(text) /\ (pc = "scan" => stack # <<>>)

\* C13: parsing terminates on every finite text: every scan step consumes at
\* least one character, and a comment, CDATA or inline DOCTYPE whose terminator
\* never appears ends with its 'Unclosed ...' error instead of looping.
C13_Terminates == []C13_Bounded /\ [][C13_Consumes /\ C13_Unclosed]_vars

\* the loop of a comment ran out of text after swallowing a segment
C13_Witness ==
    /\ text = docUnclosedComment
    /\ pc = "raised"
    /\ errors[Len(errors)].key.msg = "Unclosed comment tag"
    /\ Len(errors[Len(errors)].text) > Len(tOpenComment)

\* both instances have ended their pass
PairDone == peer.on /\ pc # "scan" /\ peer.pc # "scan"

\* the cursor of the instance that is set aside
PeerCursor == IF peer.shared THEN lastIndex ELSE peer.lastIndex

\* <a>hello</a> parsed by an instance on its own gives "hello" and no error; two
\* instances given the same text end alike
C14_SameAsAlone ==
    /\ (peer.on /\ text = docHello /\ pc # "scan") =>
           pc = "parsed" /\ tree = Text(tHello) /\ errors = <<>>
    /\ (peer.on /\ peer.text = docHello /\ peer.pc # "scan") =>
           peer.pc = "parsed" /\ peer.tree = Text(tHello) /\ peer.errors = <<>>
    /\ (PairDone /\ text = peer.text) =>
           /\ tree = peer.tree
           /\ errors = peer.errors
           /\ piNodeList = peer.piNodeList
           /\ dtdNodeList = peer.dtdNodeList

\* a step of one instance leaves the cursor of the other where it was
C14_CursorUntouched == (peer.on /\ peer' = peer) => PeerCursor' = PeerCursor

\* C14: instances share no mutable state: with the scan steps of two instances
\* interleaved in any order each ends with the tree, error list, PI list and DTD
\* list it ends with on its own, and the scan cursor of one is never written by
\* the other.
C14_InstancesIsolated == []C14_SameAsAlone /\ [][C14_CursorUntouched]_vars

RECURSIVE AllForced(_)
\* every key of every Element of the node, the two reserved keys apart, holds a
\* Sequence
AllForced(node) ==
    IF node.t = "E"
    THEN \A i \in 1..numKeys(node) :
             \/ node.v[i].k \in {opts.attribsKey, opts.dataKey}
             \/ /\ node.v[i].v.t = "S"
                /\ Len(node.v[i].v.v) >= 1
                /\ AllForced(node.v[i].v)
    ELSE IF node.t = "S"
    THEN \A i \in 1..Len(node.v) : AllForced(node.v[i])
    ELSE TRUE

\* with the attributes kept apart every key below the root element is a child
\* element; the root element is no Sequence
C15_TreeForced ==
    (Parsed /\ opts.forceArrays /\ documentNodeName # NoName) =>
        /\ RootValue.t # "S"
        /\ opts.preserveAttributes => AllForced(RootValue)

IsStandard == Scanning /\ ~patSpecialTag(Match.tag) /\ Std.found

\* the call that takes the element the step finishes, when it is not the
\* outermost one: 0 when the step finishes none, or the document element
ParentOfFinished ==
    IF ~IsStandard THEN 0
    ELSE IF Std.closing
    THEN (IF NodeName = Top.name /\ Len(stack) >= 3 THEN Len(stack) - 1 ELSE 0)
    ELSE IF patSelfClosing(Std.attribsRaw) /\ Len(stack) >= 2 THEN Len(stack)
    ELSE 0

\* a finished child element is held in a Sequence from its first occurrence, of
\* length 1 when the parent held nothing under its name
C15_ChildForced ==
    (opts.forceArrays /\ ParentOfFinished > 0) =>
        LET held == Get(stack'[ParentOfFinished].branch, NodeName)
        IN  /\ held.t = "S"
            /\ Len(held.v) >= 1
            /\ ~Has(stack[ParentOfFinished].branch, NodeName) => Len(held.v) = 1

OneX == Parsed /\ opts.forceArrays /\ text \in BodyDocs /\ Len(xKids(text, 1)) = 1

C15_SingularAlone == OneX => XOf(RootValue) = SeqNode(xKids(text, 1))

C15_SingularAfterFlat == OneX => XOf(RootValue) = SeqNode(flatX \o xKids(text, 1))

\* C15 as stated: with forceArrays on, in every tree a successful parse returns
\* each child-element key of every Element holds a Sequence, of length 1 when
\* the child is singular, and the document root element is never wrapped in one.
C15_ForcedArraysOfOne ==
    [](C15_TreeForced /\ C15_SingularAlone) /\ [][C15_ChildForced]_vars

\* C15 as amended: with forceArrays on each child-element key of every Element
\* holds a Sequence, and the document root element is never wrapped in one. The
\* Sequence of a singular child has length 1 unless the parent's tag carries a
\* flat attribute of the same name (preserveAttributes off), whose value is then
\* the first item, ahead of the child.
C15_ForcedArrays ==
    [](C15_TreeForced /\ C15_SingularAfterFlat) /\ [][C15_ChildForced]_vars

\* a single child was parsed into a Sequence of one under an unwrapped root
C15_Witness ==
    /\ Parsed
    /\ opts.forceArrays
    /\ text = tOpenA \o tX1 \o tCloseA
    /\ RootValue.t = "E"
    /\ XOf(RootValue) = SeqNode(<<Text(<<"1">>)>>)

\* the element b of <a><b/></a> and of <a><b></b></a>
C16_OnlyB ==
    LET b == Get(RootValue, <<"b">>)
    IN  IF opts.forceArrays THEN b.v[1] ELSE b

\* C16: an element with no attributes, no child elements and no text, such as
\* <b/> or <b></b> inside a parent, parses to an empty Element and not to an
\* empty string, in both copies of the implementation.
C16_EmptyElement ==
    (pc = "parsed" /\ text \in {docEmptyPair, docEmptyTag}) => C16_OnlyB = EmptyElem

\* the string part occurs somewhere in the string whole
Within(part, whole) ==
    \E i \in 1..(Len(whole) - Len(part) + 1) : StartsWithAt(whole, i, part)

\* the keys of an Element that stringify is to serialize as child elements
C17_ChildKeys(node) ==
    {k \in {e.k : e \in {node.v[i] : i \in 1..Len(node.v)}} :
        k # ATTRIBS /\ re_valid_tag_name(k)}

\* the data entry is all an Element holds besides its attributes
C17_DataAlone(node) ==
    Has(node, DATA) /\ numKeys(node) = 1 + (IF Has(node, ATTRIBS) THEN 1 ELSE 0)

\* stringify(origin, RootName) has returned the text
Stringified == origin.t = "E" /\ pc # "stringify"

\* C17: stringify emits the data text inline only when the data entry is the
\* Element's sole content besides attributes; in every other case, an Element
\* with both a non-empty data entry and child elements included, the output
\* contains the serialization of every key that is a valid tag name other
\* than the attributes key.
C17_ChildrenSerialized ==
    (Stringified /\ ~C17_DataAlone(origin)) =>
        \A k \in C17_ChildKeys(origin) :
            Within(stringify(Get(origin, k), k, 1, <<"\t">>, <<"\n">>, TRUE), text)

\* compose() has returned the text of the tree as the parse left it
C18_Composed == Parsed /\ composed \notin {<<>>, TypeError}

\* the reserved keys of the instance are not the default ones
C18_OwnKeys == opts.attribsKey # ATTRIBS \/ opts.dataKey # DATA

\* C18: the serializer inverts the parser's reserved-key convention for every
\* configuration: for a document parsed with preserveAttributes and lowerCase
\* (or with custom key names) compose() emits the attributes entry as XML
\* attributes and the data entry as inline text, never as child elements.
C18_ReservedKeysInverted ==
    (C18_Composed /\ opts.preserveAttributes /\ C18_OwnKeys) =>
        /\ ~Within(<<"<">> \o opts.attribsKey, composed)
        /\ ~Within(<<"<">> \o opts.dataKey, composed)

\* a pass of the loop that matched a tag and recorded no error
C19_Matched == pc = "scan" /\ Match.found /\ errors' = errors

\* the master cursor after the pass is past the matched tag, which is past the
\* cursor before the pass
C19_Advances ==
    C19_Matched => (Match.last > lastIndex /\ lastIndex' >= Match.last)

\* the cursor moves back only when the scan is exhausted
C19_BackOnlyAtEnd ==
    (pc = "scan" /\ lastIndex' < lastIndex) => (~Match.found /\ lastIndex' = 0)

\* C19: during one parse pass the master scan cursor strictly increases at
\* every successful tag match and is set by a returning comment, DOCTYPE or
\* CDATA sub-scanner to a position not before its previous value; until the
\* scan is exhausted or an error is raised it never moves backwards.
C19_CursorMonotonic == [][C19_Advances /\ C19_BackOnlyAtEnd]_vars

\* the CDATA sub-scanner has returned after swallowing two segments, the
\* cursor past the whole section
C19_Witness ==
    /\ text = docCDATA
    /\ pc = "scan"
    /\ lastIndex = Len(docCDATA) - Len(tCloseA)

\* the number of lines of the source text
C20_Lines == 1 + CountChar(text, "\n")

\* C20: every error record pushed by a parse has a line number that is at
\* least 1 and at most the number of lines of the source text, for every error
\* kind, 'Unclosed comment tag', 'Unclosed CDATA tag' and 'Unclosed DTD tag'
\* raised after the sub-scanner swallowed segments with newlines included.
C20_LineInRange ==
    \A i \in 1..Len(errors) : errors[i].line >= 1 /\ errors[i].line <= C20_Lines

\* a parsed body document whose root tag carries x="1" as a flat attribute and
\* holds child elements named x
C21_Clash ==
    /\ Parsed
    /\ ~opts.preserveAttributes
    /\ text \in BodyDocs
    /\ StartsWithAt(text, 1, tOpenAX)
    /\ xKids(text, 1) # <<>>

\* in every open element each flat attribute of its tag keeps its place: its
\* value is alone under the name, or the first item of the Sequence under it
C21_AttributeKept ==
    ~opts.preserveAttributes =>
        \A j \in 2..Len(stack) :
            LET ms == patAttribAll(stack[j].raw, 1)
            IN  \A i \in 1..Len(ms) :
                    LET held == Get(stack[j].branch, AttribKey(ms[i]))
                        value == AttribValue(ms, AttribKey(ms[i]))
                    IN  IF held.t = "S" THEN held.v[1] = value ELSE held = value

C21_Merged ==
    C21_Clash => XOf(RootValue) = SeqNode(<<Text(<<"1">>)>> \o xKids(text, 1))

\* C21: with preserveAttributes off, when an element has an attribute and one
\* or more child elements of the same name, neither overwrites the other: the
\* name maps to a Sequence whose first item is the attribute's decoded value,
\* followed by the child Nodes in document order.
C21_AttributeThenChildren == C21_Merged /\ C21_AttributeKept

\* <a x="1"><x>1</x><x>2</x></a> has been parsed with flat attributes
C21_Witness == C21_Clash /\ text = tOpenAX \o tX1 \o tX2 \o tCloseA

\* both copies have returned
C22_BothDone == ser.doneXml /\ ser.done000

\* C22: the two copies of the serializer are equivalent: for every node (Text,
\* Element or Sequence, an empty Sequence and an Element with a child key named
\* 'length' included) and every name, indent unit, line ending and sort flag,
\* stringify in src/xml.js and stringify in src/unnamed/part_000 return the
\* same text.
C22_CopiesAgree == C22_BothDone => ser.xml = ser.xml000

====
